---- MODULE Spec2Model ----
(***************************************************************************)
(* Authentication and session lifecycle of the garage-inventory system.    *)
(*                                                                         *)
(*   Client side : the Auth service (BehaviorSubject pair, mock login      *)
(*                 timer, logout) and AuthGuard.canActivate, driven by     *)
(*                 router navigations.          specification Spec         *)
(*                 The service alone, with its timers and the calls of     *)
(*                 ProfileService.          specification SpecClient       *)
(*                 The router under the routes of the application:         *)
(*                 SpecRoutes.                                              *)
(*                 The service over corrupted storage: SpecCorrupted.      *)
(*   Server side : AuthService (register, login, token generation and      *)
(*                 validation, refresh, logout) over the user directory.   *)
(*                 A call that awaits is a sequence of steps, one per      *)
(*                 resumption, and other calls, the clock and the owner    *)
(*                 of the directory may act between them.                  *)
(*                 specifications SpecLogin, SpecSession, SpecToken,       *)
(*                 SpecReplies, SpecRegister, SpecConcurrent, SpecVerify   *)
(*                                                                         *)
(* Strings whose characters matter (URLs, passwords, e-mail addresses) are *)
(* tuples of one-character strings.  Optional values are sequences of      *)
(* length 0 or 1.  Time is in milliseconds.                                *)
(***************************************************************************)
EXTENDS Integers, Sequences, FiniteSets, TLC

VARIABLES
    \* ---- client ----
    isAuthenticatedSubject,  \* BehaviorSubject<boolean> of Auth
    currentUserSubject,      \* BehaviorSubject<User | null> of Auth (option)
    localStorage,            \* the browser's storage for the three auth keys
    timers,                  \* pending setTimeout callbacks of Auth.login
    nav,                     \* the router's current navigation attempt
    guardSub,                \* whether the attempt's guard is still subscribed
    location,                \* Location.path() of the last finished navigation
    lastOp,                  \* the client operation performed last
    navbar,                  \* NavbarComponent's isAuthenticated and currentUser
    observed,                \* what the isAuthenticated$ callback run by the
                             \* operation performed last was shown (option)
    afterLogout,             \* logout() was called on this service and no
                             \* login has completed since
    \* ---- shared ----
    now,                     \* wall clock, ms
    \* ---- server ----
    users,                   \* the user directory (IUserRepository)
    issued,                  \* tokens produced by GenerateToken so far
    loggedOut,               \* tokens for which LogoutAsync has returned
    dirBefore,               \* the directory as the request just served found it
                             \* (a register: at its first lookup)
    reply,                   \* the request just served and its outcome (none
                             \* once time has passed or the directory changed)
    inFlight                 \* the calls of AuthService suspended at an await

clientVars == <<isAuthenticatedSubject, currentUserSubject, localStorage,
                timers, nav, guardSub, location, lastOp, navbar, observed,
                afterLogout>>
serverVars == <<users, issued, loggedOut, dirBefore, reply, inFlight>>
vars == <<clientVars, now, serverVars>>

None == <<>>
Some(x) == <<x>>

Last(s) == s[Len(s)]

RECURSIVE Flatten(_)
Flatten(ss) == IF ss = <<>> THEN <<>> ELSE Head(ss) \o Flatten(Tail(ss))

(***************************************************************************)
(* Bounds                                                                  *)
(***************************************************************************)
MaxTime == 2000
ClockStep == 500
MaxPendingLogins == 2
MaxRequests == 2
MaxInFlight == 1

(***************************************************************************)
(* Client: Auth service                                                    *)
(***************************************************************************)
LoginDelay == 1000

LoginEmails == {"test@example.com", "user2@example.com"}

MockUser_SameEmail(email) == [id |-> 1, name |-> "John Doe", email |-> "test@example.com"]
MockUser(email) == [id |-> 1, name |-> "John Doe", email |-> email]

EmptyStorage == [auth_token |-> None, auth_user |-> None, auth_expires_at |-> None]

\* What the browser may hold when the page loads: nothing, or a session left
\* under the three keys (the service tests seed storage this way).
StoredUser == [id |-> 1, name |-> "Stored User", email |-> "stored@example.com"]
StoredExpiries == {1500, 86400000}
InitialStorages ==
    {EmptyStorage} \cup
    { [auth_token |-> Some("stored-jwt-token"), auth_user |-> Some(StoredUser),
       auth_expires_at |-> Some(e)] : e \in StoredExpiries }

\* What the browser holds when the persisted data is corrupted: a profile
\* that is no JSON, an expiry that is no date, or both
CorruptedBoth == [auth_token |-> Some("valid-token"), auth_user |-> Some("invalid-json"),
                  auth_expires_at |-> Some("invalid-date")]
CorruptedUser == [auth_token |-> Some("valid-token"), auth_user |-> Some("invalid-json"),
                  auth_expires_at |-> None]
CorruptedExpiry == [auth_token |-> Some("valid-token"), auth_user |-> None,
                    auth_expires_at |-> Some("invalid-date")]

\* new BehaviorSubject<boolean>(false): the value the service starts with,
\* whatever the storage holds
InitialAuthenticated_FromToken(storage) == storage.auth_token # None
InitialAuthenticated(storage) == FALSE

\* Auth.isAuthenticated()
IsAuthenticated == isAuthenticatedSubject

\* Auth.getCurrentUser()
GetCurrentUser == currentUserSubject

(***************************************************************************)
(* Client: URL serialisation of the router                                 *)
(***************************************************************************)
\* encodeURIComponent, for the characters that occur in the modelled URLs
EncodeURIComponentChar(c) ==
    CASE c = "/" -> <<"%", "2", "F">>
      [] c = "?" -> <<"%", "3", "F">>
      [] c = "=" -> <<"%", "3", "D">>
      [] c = "&" -> <<"%", "2", "6">>
      [] c = "#" -> <<"%", "2", "3">>
      [] c = "%" -> <<"%", "2", "5">>
      [] c = " " -> <<"%", "2", "0">>
      [] c = "@" -> <<"%", "4", "0">>
      [] c = ":" -> <<"%", "3", "A">>
      [] OTHER   -> <<c>>

\* The router's query-value encoding: encodeURIComponent with @ : $ , ; kept
EncodeUriQueryChar(c) ==
    IF c \in {"@", ":", "$", ",", ";"} THEN <<c>> ELSE EncodeURIComponentChar(c)

EncodeUriQuery_Raw(s) == s
EncodeUriQuery(s) == Flatten([i \in 1..Len(s) |-> EncodeUriQueryChar(s[i])])

\* decodeURIComponent of one escape
DecodeEscape(h) ==
    CASE h = <<"2", "F">> -> "/"
      [] h = <<"3", "F">> -> "?"
      [] h = <<"3", "D">> -> "="
      [] h = <<"2", "6">> -> "&"
      [] h = <<"2", "3">> -> "#"
      [] h = <<"2", "5">> -> "%"
      [] h = <<"2", "0">> -> " "
      [] h = <<"4", "0">> -> "@"
      [] h = <<"3", "A">> -> ":"
      [] OTHER -> "?bad"

RECURSIVE DecodeURIComponent(_)
DecodeURIComponent(s) ==
    IF s = <<>> THEN <<>>
    ELSE IF Head(s) = "%" /\ Len(s) >= 3
         THEN <<DecodeEscape(SubSeq(s, 2, 3))>> \o DecodeURIComponent(SubSeq(s, 4, Len(s)))
         ELSE <<Head(s)>> \o DecodeURIComponent(Tail(s))

LoginPath == <<"/", "l", "o", "g", "i", "n">>
ReturnUrlKey == <<"r", "e", "t", "u", "r", "n", "U", "r", "l">>

\* router.navigate(['/login'], { queryParams: { returnUrl: url } }) as the
\* URL the router serialises
LoginRedirectUrl(url) == LoginPath \o <<"?">> \o ReturnUrlKey \o <<"=">> \o EncodeUriQuery(url)

ExampleUrl ==
    <<"/", "i", "n", "v", "e", "n", "t", "o", "r", "y", "?", "c", "a", "t", "e", "g",
      "o", "r", "y", "=", "e", "l", "e", "c", "t", "r", "o", "n", "i", "c", "s", "&",
      "s", "o", "r", "t", "=", "n", "a", "m", "e">>
FragmentUrl ==
    <<"/", "p", "r", "o", "t", "e", "c", "t", "e", "d", "#", "s", "e", "c", "t", "i",
      "o", "n", "1">>
EscapedUrl == <<"/", "i", "?", "q", "=", "a", "%", "2", "0", "b", ":", "c">>
ProfileUrl == <<"/", "p", "r", "o", "f", "i", "l", "e">>

\* state.url of the navigations to guarded routes
ProtectedTargets == {ExampleUrl, FragmentUrl, EscapedUrl, ProfileUrl}

RootUrl == <<"/">>

\* the routes of app.routes.ts that carry canActivate: [AuthGuard]
GuardedRoutes ==
    { <<"/", "i", "n", "v", "e", "n", "t", "o", "r", "y">>,
      <<"/", "l", "o", "c", "a", "t", "i", "o", "n", "s">>,
      <<"/", "c", "a", "t", "e", "g", "o", "r", "i", "e", "s">>,
      <<"/", "r", "e", "p", "o", "r", "t", "s">>,
      ProfileUrl,
      <<"/", "s", "e", "t", "t", "i", "n", "g", "s">> }

\* routes without a guard: of the tests' configuration (/public, /login) and
\* of the application (/, /login, /register); /dashboard matches '**'
PublicUrl == <<"/", "p", "u", "b", "l", "i", "c">>
RegisterUrl == <<"/", "r", "e", "g", "i", "s", "t", "e", "r">>
DashboardUrl == <<"/", "d", "a", "s", "h", "b", "o", "a", "r", "d">>
UnguardedTargets == {PublicUrl, LoginPath}
AppUrls == GuardedRoutes \cup {RootUrl, LoginPath, RegisterUrl, DashboardUrl}

(***************************************************************************)
(* Client: AuthGuard                                                       *)
(***************************************************************************)
\* The router runs one navigation at a time: nav is the current attempt (a
\* new router.navigate supersedes the one in progress).
\* guarded: the matched route carries canActivate: [AuthGuard]; redirects:
\* the URLs the attempt was sent on to; build: the build of the application
\* the router runs in, once a navigation under its route table has shown it
IdleNav == [target |-> RootUrl, pc |-> "idle", seen |-> <<>>, redirects |-> <<>>,
            result |-> FALSE, superseded |-> FALSE, guarded |-> FALSE,
            build |-> "unknown"]

\* the callback of a subscriber of isAuthenticated$ run inside next(v): the
\* value it is given and what getCurrentUser() returns at that moment
FlagCallback(v, user) == Some([isAuthenticated |-> v, currentUser |-> user])

\* isAuthenticatedSubject.next(false) in logout(): the value the subject
\* holds afterwards, v being the one it held
LogoutNext(v) == FALSE

\* NavbarComponent before any notification
NavbarInit == [isAuthenticated |-> FALSE, currentUser |-> None]

\* take(1): whether the guard stays subscribed after the value it received
Take1_Missing(subscribed) == subscribed
Take1(subscribed) == FALSE

\* map(isAuthenticated => ...) applied to one value delivered to attempt n
\* (seen: the values it was given; redirects: its router.navigate calls;
\* result: the boolean it returned)
GuardMap_Inverted(n, v) ==
    [n EXCEPT !.seen = @ \o <<v>>,
              !.redirects = IF ~v THEN @ ELSE @ \o <<LoginRedirectUrl(n.target)>>,
              !.result = ~v]
GuardMap(n, v) ==
    [n EXCEPT !.seen = @ \o <<v>>,
              !.redirects = IF v THEN @ ELSE @ \o <<LoginRedirectUrl(n.target)>>,
              !.result = v]

\* isAuthenticatedSubject.next(v) as seen by a guard that is still subscribed
DeliverToGuard(n, subscribed, v) == IF subscribed THEN GuardMap(n, v) ELSE n

(***************************************************************************)
(* Client actions                                                          *)
(***************************************************************************)
\* Auth.login(email, password): schedules the mock completion
Login(email) ==
    /\ Len(timers) < MaxPendingLogins
    /\ timers' = Append(timers, [email |-> email, due |-> now + LoginDelay])
    /\ lastOp' = "login"
    /\ UNCHANGED <<isAuthenticatedSubject, currentUserSubject, localStorage,
                   nav, guardSub, location, navbar, afterLogout, now, serverVars>>
    /\ observed' = None

\* the setTimeout callback inside Auth.login
LoginTimeout ==
    /\ timers # <<>>
    /\ Head(timers).due <= now
    /\ isAuthenticatedSubject' = TRUE
    /\ nav' = DeliverToGuard(nav, guardSub, TRUE)
    /\ observed' = FlagCallback(TRUE, currentUserSubject)
    /\ afterLogout' = FALSE
    /\ currentUserSubject' = Some(MockUser(Head(timers).email))
    /\ navbar' = [isAuthenticated |-> TRUE,
                  currentUser |-> Some(MockUser(Head(timers).email))]
    /\ timers' = Tail(timers)
    /\ lastOp' = "loginDone"
    /\ UNCHANGED <<localStorage, guardSub, location, now, serverVars>>

\* Auth.logout()
Logout ==
    /\ isAuthenticatedSubject' = LogoutNext(isAuthenticatedSubject)
    /\ nav' = DeliverToGuard(nav, guardSub, LogoutNext(isAuthenticatedSubject))
    /\ observed' = FlagCallback(LogoutNext(isAuthenticatedSubject), currentUserSubject)
    /\ afterLogout' = TRUE
    /\ currentUserSubject' = None
    /\ navbar' = [isAuthenticated |-> LogoutNext(isAuthenticatedSubject),
                  currentUser |-> None]
    /\ lastOp' = "logout"
    /\ UNCHANGED <<localStorage, timers, guardSub, location, now, serverVars>>

\* page reload: a new Auth instance is constructed, storage persists
Reload ==
    /\ lastOp # "init"
    /\ isAuthenticatedSubject' = InitialAuthenticated(localStorage)
    /\ currentUserSubject' = None
    /\ timers' = <<>>
    /\ nav' = IdleNav
    /\ guardSub' = FALSE
    /\ location' = RootUrl
    /\ navbar' = NavbarInit
    /\ observed' = None
    /\ afterLogout' = FALSE
    /\ lastOp' = "init"
    /\ UNCHANGED <<localStorage, now, serverVars>>

\* the attempt router.navigate starts: it cancels the attempt in progress,
\* whose guard decision and redirect are dropped
InProgress(n) == n.pc \in {"scheduled", "allowed", "denied"}

NewNav_KeepsCancelled(n, url) ==
    [n EXCEPT !.target = url, !.pc = "scheduled", !.superseded = InProgress(n),
              !.guarded = TRUE]
NewNav(n, url) ==
    [IdleNav EXCEPT !.target = url, !.pc = "scheduled", !.superseded = InProgress(n),
                    !.guarded = TRUE]

\* router.navigate to a guarded route
Navigate(url) ==
    /\ nav' = NewNav(nav, url)
    /\ guardSub' = FALSE
    /\ lastOp' = "navigate"
    /\ UNCHANGED <<isAuthenticatedSubject, currentUserSubject, localStorage,
                   timers, location, navbar, afterLogout, now, serverVars>>
    /\ observed' = None

\* router.navigate to a route without canActivate (navigateToHome,
\* navigateToLogin, navigateToRegister, the tests' /public and /login): no
\* guard runs, the attempt supersedes the one in progress and goes through
NavigateUnguarded(url) ==
    /\ nav' = [NewNav(nav, url) EXCEPT !.guarded = FALSE, !.pc = "allowed", !.result = TRUE]
    /\ guardSub' = FALSE
    /\ lastOp' = "navigate"
    /\ UNCHANGED <<isAuthenticatedSubject, currentUserSubject, localStorage,
                   timers, location, navbar, afterLogout, now, serverVars>>
    /\ observed' = None

\* the route of app.routes.ts a URL ends on: '', login and register are
\* components; the six protected paths and '**' carry redirectTo: '', which
\* the router applies while matching, before any guard could run
AppRoute(url) == IF url \in {RootUrl, LoginPath, RegisterUrl} THEN url ELSE RootUrl

\* the builds of the application: a development build validates the route
\* configuration and rejects redirectTo together with canActivate (the router
\* is never set up, no navigation takes place), a production build does not
\* validate
RouterBuilds == {"production", "development"}

\* router.navigate under the route configuration of app.routes.ts, in the
\* build the application runs in
NavigateApp(url, build) ==
    /\ nav.build \in {"unknown", build}
    /\ nav' = IF build = "development"
              THEN [NewNav(nav, url) EXCEPT !.guarded = FALSE, !.pc = "failed",
                       !.build = build]
              ELSE [NewNav(nav, url) EXCEPT !.guarded = FALSE, !.pc = "allowed",
                       !.result = TRUE, !.build = build,
                       !.redirects = IF AppRoute(url) = url THEN <<>> ELSE <<AppRoute(url)>>]
    /\ guardSub' = FALSE
    /\ lastOp' = "navigate"
    /\ UNCHANGED <<isAuthenticatedSubject, currentUserSubject, localStorage,
                   timers, location, navbar, afterLogout, now, serverVars>>
    /\ observed' = None

\* AuthGuard.canActivate for the current attempt: subscribe to
\* isAuthenticated$, which replays its current value
CanActivate ==
    /\ nav.pc = "scheduled"
    /\ LET n == GuardMap(nav, isAuthenticatedSubject)
       IN nav' = [n EXCEPT !.pc = IF n.result THEN "allowed" ELSE "denied"]
    /\ guardSub' = Take1(TRUE)
    /\ lastOp' = "canActivate"
    /\ UNCHANGED <<isAuthenticatedSubject, currentUserSubject, localStorage,
                   timers, location, navbar, afterLogout, now, serverVars>>
    /\ observed' = None

\* the current navigation (or the redirect its guard asked for) finishes
NavigationEnd ==
    /\ nav.pc \in {"allowed", "denied"}
    /\ location' = IF nav.redirects # <<>> THEN Last(nav.redirects) ELSE nav.target
    /\ nav' = [nav EXCEPT !.pc = "done"]
    /\ guardSub' = FALSE
    /\ lastOp' = "navigationEnd"
    /\ UNCHANGED <<isAuthenticatedSubject, currentUserSubject, localStorage,
                   timers, navbar, afterLogout, now, serverVars>>
    /\ observed' = None

\* a call of ProfileService (getUserProfile, updateProfile, changePassword)
\* and the status of its response: the error goes to the caller, no
\* interceptor is installed
ProfileStatuses == {200, 401, 403}

ProfileCall(status) ==
    /\ lastOp' = IF status \in {401, 403} THEN "rejected" ELSE "served"
    /\ UNCHANGED <<isAuthenticatedSubject, currentUserSubject, localStorage,
                   timers, nav, guardSub, location, navbar, afterLogout, now,
                   serverVars>>
    /\ observed' = None

\* time passes
Tick ==
    /\ now + ClockStep <= MaxTime
    /\ now' = now + ClockStep
    /\ UNCHANGED <<clientVars, serverVars>>

ServerIdle ==
    /\ users = {}
    /\ issued = {}
    /\ loggedOut = {}
    /\ dirBefore = {}
    /\ reply = [op |-> "none", ok |-> FALSE, error |-> "", dto |-> <<>>, login |-> <<>>,
                tokenArg |-> <<>>, token |-> <<>>, user |-> <<>>, expiresAt |-> <<>>,
                valid |-> FALSE, password |-> <<>>, digest |-> <<>>]
    /\ inFlight = {}

Init ==
    /\ localStorage \in InitialStorages
    /\ isAuthenticatedSubject = InitialAuthenticated(localStorage)
    /\ currentUserSubject = None
    /\ timers = <<>>
    /\ nav = IdleNav
    /\ guardSub = FALSE
    /\ location = RootUrl
    /\ lastOp = "init"
    /\ navbar = NavbarInit
    /\ observed = None
    /\ afterLogout = FALSE
    /\ now = 0
    /\ ServerIdle

Next ==
    \/ Login("test@example.com")
    \/ LoginTimeout
    \/ Logout
    \/ Reload
    \/ \E u \in ProtectedTargets : Navigate(u)
    \/ \E u \in UnguardedTargets : NavigateUnguarded(u)
    \/ CanActivate
    \/ NavigationEnd
    \/ Tick

Spec == Init /\ [][Next]_vars

\* The session without navigation: time passes and due timers fire
NextClient ==
    \/ \E e \in LoginEmails : Login(e)
    \/ LoginTimeout
    \/ Logout
    \/ Reload
    \/ \E status \in ProfileStatuses : ProfileCall(status)
    \/ Tick

SpecClient == Init /\ [][NextClient]_vars /\ WF_vars(Tick) /\ WF_vars(LoginTimeout)

\* Navigations under the route configuration of the application around
\* logins and logouts of one user
NextRoutes ==
    \/ Login("test@example.com")
    \/ LoginTimeout
    \/ Logout
    \/ \E u \in AppUrls : \E build \in RouterBuilds : NavigateApp(u, build)
    \/ NavigationEnd
    \/ Tick

SpecRoutes == Init /\ [][NextRoutes]_vars

\* The service started over corrupted storage
InitCorrupted ==
    /\ \/ localStorage = CorruptedBoth
       \/ localStorage = CorruptedUser
       \/ localStorage = CorruptedExpiry
    /\ isAuthenticatedSubject = InitialAuthenticated(localStorage)
    /\ currentUserSubject = None
    /\ timers = <<>>
    /\ nav = IdleNav
    /\ guardSub = FALSE
    /\ location = RootUrl
    /\ lastOp = "init"
    /\ navbar = NavbarInit
    /\ observed = None
    /\ afterLogout = FALSE
    /\ now = 0
    /\ ServerIdle

SpecCorrupted == InitCorrupted /\ [][NextClient]_vars

(***************************************************************************)
(* Server: strings                                                         *)
(***************************************************************************)
Whitespace == {" ", "\t", "\n"}

\* string.IsNullOrWhiteSpace
IsNullOrWhiteSpace(s) == \A i \in 1..Len(s) : s[i] \in Whitespace

UpperChars == {"A", "B", "C", "D", "E", "F", "G", "H", "I", "J", "K", "L", "M",
               "N", "O", "P", "Q", "R", "S", "T", "U", "V", "W", "X", "Y", "Z"}
LowerChars == {"a", "b", "c", "d", "e", "f", "g", "h", "i", "j", "k", "l", "m",
               "n", "o", "p", "q", "r", "s", "t", "u", "v", "w", "x", "y", "z"}
DigitChars == {"0", "1", "2", "3", "4", "5", "6", "7", "8", "9"}
SpecialChars == {"!", "@", "#", "$", "%", "^", "&", "*", "(", ")", ",", ".", "?",
                 "\"", "'", ":", ";", "{", "}", "|", "<", ">"}

HasChar(s, cs) == \E i \in 1..Len(s) : s[i] \in cs

MinPasswordLength == 8

\* AuthService.IsValidPassword
IsValidPassword(password) ==
    IF Len(password) < MinPasswordLength THEN FALSE
    ELSE /\ HasChar(password, UpperChars)
         /\ HasChar(password, LowerChars)
         /\ HasChar(password, DigitChars)
         /\ HasChar(password, SpecialChars)

\* the whole of s is [^@\s]+@[^@\s]+\.[^@\s]+
EmailPatternMatches(s) ==
    \E a \in 1..Len(s) : \E d \in 1..Len(s) :
        /\ s[a] = "@"
        /\ s[d] = "."
        /\ 1 < a /\ a + 1 < d /\ d < Len(s)
        /\ \A i \in 1..Len(s) : i # a => s[i] \notin ({"@"} \cup Whitespace)

\* AuthService.IsValidEmail: Regex.IsMatch with ^[^@\s]+@[^@\s]+\.[^@\s]+$
\* and no options; $ matches at the end of the string and also before a
\* newline that ends it
IsValidEmail(email) ==
    \/ EmailPatternMatches(email)
    \/ /\ email # <<>>
       /\ Last(email) = "\n"
       /\ EmailPatternMatches(SubSeq(email, 1, Len(email) - 1))

Blank == <<" ">>
EmailT == <<"t", "@", "e", "x", "a", "m", "p", "l", "e", ".", "c", "o", "m">>
EmailM == <<"m", "@", "x", ".", "i", "o">>
EmailNewline == EmailM \o <<"\n">>
BadEmail == <<"i", "n", "v", "a", "l", "i", "d", "-", "e", "m", "a", "i", "l">>
Johndoe == <<"j", "o", "h", "n", "d", "o", "e">>
Nobody == <<"n", "o", "b", "o", "d", "y">>
Password1 == <<"P", "a", "s", "s", "w", "o", "r", "d", "1", "!">>
WrongPass1 == <<"W", "r", "o", "n", "g", "P", "a", "s", "s", "1", "!">>
Weak == <<"w", "e", "a", "k">>
Secret9 == <<"S", "e", "c", "r", "e", "t", "9", "#">>
John == <<"J", "o", "h", "n">>
Mallory == <<"M", "a", "l", "l", "o", "r", "y">>
Doe == <<"D", "o", "e">>

(***************************************************************************)
(* Server: bounds and inputs                                               *)
(***************************************************************************)
Salts == {"salt1", "salt2"}

\* 24 hours, in ms
TokenLifetime == 86400000

\* the instants at which the server is observed: within one second of the
\* start, and around the expiry of a token issued then
LoginInstants == {0, ClockStep}
SessionInstants == {0, ClockStep, TokenLifetime, TokenLifetime + ClockStep}

\* CreateUserDto values submitted to register; a username may look like an
\* e-mail address, register does not restrict its form
RegJohn == [Email |-> EmailT, Password |-> Password1, FirstName |-> John,
            LastName |-> Doe, Username |-> Johndoe]
RegMallory == [Email |-> EmailM, Password |-> Secret9, FirstName |-> Mallory,
               LastName |-> Doe, Username |-> EmailT]
RegisterInputs == {RegJohn, RegMallory}

\* a UserDto that names no account of the directory
Stranger ==
    [Id |-> 99, Username |-> Nobody, Email |-> EmailM, FirstName |-> Mallory,
     LastName |-> Doe, FullName |-> Mallory \o <<" ">> \o Doe, IsActive |-> TRUE,
     LastLoginAt |-> None, CreatedAt |-> 0]

\* LoginDto values submitted to login
LoginInputs ==
    [Username : {Johndoe}, Password : {Password1, WrongPass1}]
        \cup {[Username |-> EmailT, Password |-> Password1],
              [Username |-> Nobody, Password |-> Password1],
              [Username |-> Blank, Password |-> Password1],
              [Username |-> Johndoe, Password |-> Blank]}

(***************************************************************************)
(* Server: PasswordHasher (BCrypt)                                         *)
(***************************************************************************)
\* BCrypt.HashPassword with the salt the call drew: the digest embeds the
\* salt; key stands for the one-way hash of (salt, password)
HashPassword(password, salt) == [salt |-> salt, key |-> <<salt, password>>]

\* BCrypt.Verify: recompute with the salt embedded in the digest
VerifyPassword(password, hash) == hash.key = <<hash.salt, password>>

\* strings that are no BCrypt digest ("", "not-a-hash", a digest cut before
\* the end of its salt): the salt field holds what stands where the salt
\* should be
MalformedDigest(raw) == [salt |-> raw, key |-> <<>>]
MalformedDigests == {MalformedDigest(""), MalformedDigest("not-a-hash"),
                     MalformedDigest("$2a$11$cut")}

\* a digest cut after its salt: version, cost and salt still parse
TruncatedDigest == [salt |-> "salt1", key |-> <<"salt1">>]

\* BCrypt.Verify parses version, cost and salt out of the digest before it
\* hashes, and throws (SaltParseException, ArgumentException) when it cannot
BCryptThrows(hash) == hash.salt \notin Salts

(***************************************************************************)
(* Server: user directory                                                  *)
(***************************************************************************)
\* IUserRepository.GetByUsernameAsync / GetByEmailAsync / GetByIdAsync, as
\* options
GetByUsername(dir, name) ==
    IF \E u \in dir : u.Username = name
    THEN Some(CHOOSE u \in dir : u.Username = name) ELSE None

GetByEmail(dir, email) ==
    IF \E u \in dir : u.Email = email
    THEN Some(CHOOSE u \in dir : u.Email = email) ELSE None

GetById(dir, id) ==
    IF \E u \in dir : u.Id = id
    THEN Some(CHOOSE u \in dir : u.Id = id) ELSE None

\* the directory after the tracked entity u was changed to v and saved
Save(dir, u, v) == (dir \ {u}) \cup {v}

\* string.Trim
RECURSIVE TrimStart(_)
TrimStart(s) == IF s # <<>> /\ Head(s) \in Whitespace THEN TrimStart(Tail(s)) ELSE s
RECURSIVE TrimEnd(_)
TrimEnd(s) == IF s # <<>> /\ Last(s) \in Whitespace THEN TrimEnd(SubSeq(s, 1, Len(s) - 1)) ELSE s
Trim(s) == TrimEnd(TrimStart(s))

\* User.FullName
FullName(u) == Trim(u.FirstName \o <<" ">> \o u.LastName)

\* AuthService.MapToUserDto
MapToUserDto_WithHash(u) ==
    [Id |-> u.Id, Username |-> u.Username, Email |-> u.Email,
     FirstName |-> u.FirstName, LastName |-> u.LastName, FullName |-> FullName(u),
     IsActive |-> u.IsActive, LastLoginAt |-> u.LastLoginAt, CreatedAt |-> u.CreatedAt,
     PasswordHash |-> u.PasswordHash]
MapToUserDto(u) ==
    [Id |-> u.Id, Username |-> u.Username, Email |-> u.Email,
     FirstName |-> u.FirstName, LastName |-> u.LastName, FullName |-> FullName(u),
     IsActive |-> u.IsActive, LastLoginAt |-> u.LastLoginAt, CreatedAt |-> u.CreatedAt]

(***************************************************************************)
(* Server: TokenCodec (JWT)                                                *)
(***************************************************************************)
JwtSecret == "your-super-secret-jwt-key-that-should-be-at-least-32-characters-long"

\* HMAC of the payload under a key
Sign(payload, key) == [key |-> key, over |-> payload]

\* JWT NumericDate: whole seconds
EpochSeconds(t) == t \div 1000

\* AuthService.GenerateToken at time t
GenerateToken(user, t) ==
    LET payload == [nameid |-> user.Id, unique_name |-> user.Username,
                    email |-> user.Email, given_name |-> user.FirstName,
                    family_name |-> user.LastName,
                    nbf |-> EpochSeconds(t), iat |-> EpochSeconds(t),
                    exp |-> EpochSeconds(t + TokenLifetime)]
    IN [wellFormed |-> TRUE, raw |-> "jwt", payload |-> payload,
        sig |-> Sign(payload, JwtSecret)]

NoPayload == [nameid |-> 0, unique_name |-> <<>>, email |-> <<>>, given_name |-> <<>>,
              family_name |-> <<>>, nbf |-> 0, iat |-> 0, exp |-> 0]

\* strings that are no JWT: "invalid.token.format", "" and null
Malformed(raw) == [wellFormed |-> FALSE, raw |-> raw, payload |-> NoPayload,
                   sig |-> Sign(NoPayload, "none")]
MalformedTokens == {Malformed("invalid.token.format"), Malformed(""), Malformed("null")}

\* a token whose payload was altered after signing
Tamper(tok) == [tok EXCEPT !.payload.exp = @ + 3600]

\* the token strings a caller may present
TokenInputs == issued \cup {Tamper(tok) : tok \in issued} \cup MalformedTokens

\* JwtSecurityTokenHandler.ValidateToken with the parameters of
\* ValidateTokenAsync / GetUserFromTokenAsync (signature, lifetime, zero
\* clock skew): the failure it raises, or "ok"
TokenCheck(tok, t) ==
    IF ~tok.wellFormed THEN "malformed"
    ELSE IF tok.sig # Sign(tok.payload, JwtSecret) THEN "badSignature"
    ELSE IF tok.payload.nbf * 1000 > t THEN "notYetValid"
    ELSE IF tok.payload.exp * 1000 < t THEN "expired"
    ELSE "ok"

\* the exception of the token handler that leaves ValidateTokenAsync: its
\* catch clause takes every one
ValidateTokenEscapes_NoCatch(tok, t) == TokenCheck(tok, t) # "ok"
ValidateTokenEscapes(tok, t) == FALSE

\* AuthService.ValidateTokenAsync
ValidateToken(tok, t) == TokenCheck(tok, t) = "ok"

(***************************************************************************)
(* Server: AuthService requests                                            *)
(***************************************************************************)
NoReply == [op |-> "none", ok |-> FALSE, error |-> "", dto |-> None, login |-> None,
            tokenArg |-> None, token |-> None, user |-> None, expiresAt |-> None,
            valid |-> FALSE, password |-> None, digest |-> None, account |-> None,
            since |-> 0]

Failure(op, msg) == [NoReply EXCEPT !.op = op, !.error = msg]

\* AuthService.ValidateCreateUserDto: the message of the exception it throws,
\* or "" when the input passes
ValidateCreateUserDto(dto) ==
    IF IsNullOrWhiteSpace(dto.Email) THEN "Email is required"
    ELSE IF ~IsValidEmail(dto.Email) THEN "Invalid email format"
    ELSE IF IsNullOrWhiteSpace(dto.Password) THEN "Password is required"
    ELSE IF ~IsValidPassword(dto.Password) THEN "Password does not meet security requirements"
    ELSE IF IsNullOrWhiteSpace(dto.FirstName) THEN "First name is required"
    ELSE IF IsNullOrWhiteSpace(dto.LastName) THEN "Last name is required"
    ELSE IF IsNullOrWhiteSpace(dto.Username) THEN "Username is required"
    ELSE ""

\* the lookups of RegisterAsync in the order it makes them
RegisterChecks_UsernameFirst == <<"username", "email">>
RegisterChecks == <<"email", "username">>

\* Guid.NewGuid(): an id no account and no request in flight carries
NewGuid ==
    LET used == {u.Id : u \in users} \cup
                {Head(r.user).Id : r \in {q \in inFlight : q.user # None}}
    IN CHOOSE id \in 1..(Cardinality(used) + 1) : id \notin used

\* new User { ... } in RegisterAsync
NewUser(id, dto, salt, t) ==
    [Id |-> id, Username |-> dto.Username, Email |-> dto.Email,
     FirstName |-> dto.FirstName, LastName |-> dto.LastName,
     PasswordHash |-> HashPassword(dto.Password, salt), IsActive |-> TRUE,
     LastLoginAt |-> None, CreatedAt |-> t]

\* the directory once the record handed to IUserRepository.AddAsync has been
\* saved: the directory stores the record it is given; it looks accounts up
\* and updates them, and leaves the checks for a taken username or e-mail
\* address to its caller
AddAsync(dir, u) == dir \cup {u}

\* the directory once SaveChangesAsync has written the changed LastLoginAt of
\* the tracked entity v: the record with v's id takes the value, its other
\* fields are what the directory holds
SaveLastLoginAt(dir, v) ==
    {IF w.Id = v.Id THEN [w EXCEPT !.LastLoginAt = v.LastLoginAt] ELSE w : w \in dir}

\* a call suspended at an await. pc: the await it waits at; dto, login, tok:
\* its argument; user: the entity it holds; t0: when a login was received;
\* t: when it set LastLoginAt; dir0: the directory at the first read of a
\* register; n tells calls apart that are equal in all of that
Suspended(op, pc) ==
    [n |-> 1, op |-> op, pc |-> pc, dto |-> None, login |-> None, tok |-> None,
     user |-> None, t0 |-> 0, t |-> 0, dir0 |-> {}]

\* the requests in flight and one more
Accept(r) ==
    inFlight \cup
        {[r EXCEPT !.n = CHOOSE n \in 1..MaxRequests :
                             /\ [r EXCEPT !.n = n] \notin inFlight
                             /\ \A m \in 1..(n - 1) : [r EXCEPT !.n = m] \in inFlight]}

\* the server takes up to MaxRequests calls at a time
HasRoom == Cardinality(inFlight) < MaxRequests

\* fewer than k calls are in flight
Room(k) == Cardinality(inFlight) < k

\* the directory a register request read first
FirstRead(r) == IF r.pc = RegisterChecks[1] THEN users ELSE r.dir0

\* AuthService.RegisterAsync up to its first await: ValidateCreateUserDto
RegisterAsync(dto) ==
    /\ HasRoom
    /\ IF ValidateCreateUserDto(dto) # ""
       THEN /\ reply' = [Failure("register", ValidateCreateUserDto(dto)) EXCEPT
                            !.dto = Some(dto)]
            /\ dirBefore' = users
            /\ inFlight' = inFlight
       ELSE /\ reply' = NoReply
            /\ dirBefore' = {}
            /\ inFlight' = Accept([Suspended("register", RegisterChecks[1]) EXCEPT
                                       !.dto = Some(dto)])
    /\ UNCHANGED <<clientVars, now, users, issued, loggedOut>>

\* a lookup of RegisterAsync found an account: the exception it throws
RegisterConflict(r, msg) ==
    /\ reply' = [Failure("register", msg) EXCEPT !.dto = r.dto]
    /\ dirBefore' = FirstRead(r)
    /\ inFlight' = inFlight \ {r}

\* a lookup of RegisterAsync found no account: on to the next lookup, or, after
\* the last, new User { ... } and the call of AddAsync
RegisterPassed(r, salt) ==
    /\ reply' = NoReply
    /\ dirBefore' = {}
    /\ inFlight' = (inFlight \ {r}) \cup
          {IF r.pc = RegisterChecks[1]
           THEN [r EXCEPT !.pc = RegisterChecks[2], !.dir0 = users]
           ELSE [r EXCEPT !.pc = "add",
                          !.user = Some(NewUser(NewGuid, Head(r.dto), salt, now))]}

\* RegisterAsync resumes from await GetByEmailAsync
RegisterCheckEmail(r, salt) ==
    /\ r.op = "register" /\ r.pc = "email"
    /\ IF GetByEmail(users, Head(r.dto).Email) # None
       THEN RegisterConflict(r, "Email already exists")
       ELSE RegisterPassed(r, salt)
    /\ UNCHANGED <<clientVars, now, users, issued, loggedOut>>

\* RegisterAsync resumes from await GetByUsernameAsync
RegisterCheckUsername(r, salt) ==
    /\ r.op = "register" /\ r.pc = "username"
    /\ IF GetByUsername(users, Head(r.dto).Username) # None
       THEN RegisterConflict(r, "Username already exists")
       ELSE RegisterPassed(r, salt)
    /\ UNCHANGED <<clientVars, now, users, issued, loggedOut>>

\* RegisterAsync resumes from await AddAsync with the entity and calls
\* SaveChangesAsync
RegisterAdd(r) ==
    /\ r.op = "register" /\ r.pc = "add"
    /\ reply' = NoReply
    /\ dirBefore' = {}
    /\ inFlight' = (inFlight \ {r}) \cup {[r EXCEPT !.pc = "save"]}
    /\ UNCHANGED <<clientVars, now, users, issued, loggedOut>>

\* RegisterAsync resumes from await SaveChangesAsync: the record is in the
\* directory, the profile is returned
RegisterSave(r) ==
    /\ r.op = "register" /\ r.pc = "save"
    /\ users' = AddAsync(users, Head(r.user))
    /\ reply' = [NoReply EXCEPT !.op = "register", !.ok = TRUE, !.dto = r.dto,
                    !.user = Some(MapToUserDto(Head(r.user)))]
    /\ dirBefore' = r.dir0
    /\ inFlight' = inFlight \ {r}
    /\ UNCHANGED <<clientVars, now, issued, loggedOut>>

\* the argument checks of LoginAsync: the message of the exception, or ""
ValidateLoginDto(dto) ==
    IF IsNullOrWhiteSpace(dto.Username) THEN "Username is required"
    ELSE IF IsNullOrWhiteSpace(dto.Password) THEN "Password is required"
    ELSE ""

\* the checks LoginAsync makes on the account it read (user, an option): the
\* message of the exception, or "" when the login goes through
LoginError_NoActiveCheck(user, dto) ==
    IF user = None THEN "Invalid username or password"
    ELSE IF ~VerifyPassword(dto.Password, Head(user).PasswordHash)
         THEN "Invalid username or password"
    ELSE ""
LoginError(user, dto) ==
    IF user = None THEN "Invalid username or password"
    ELSE IF ~Head(user).IsActive THEN "Account is inactive"
    ELSE IF ~VerifyPassword(dto.Password, Head(user).PasswordHash)
         THEN "Invalid username or password"
    ELSE ""

\* user.LastLoginAt = DateTime.UtcNow
SetLastLoginAt_Skipped(u, t) == u
SetLastLoginAt(u, t) == [u EXCEPT !.LastLoginAt = Some(t)]

\* AuthService.LoginAsync up to its first await: the argument checks
LoginAsync(dto) ==
    /\ HasRoom
    /\ IF ValidateLoginDto(dto) # ""
       THEN /\ reply' = [Failure("login", ValidateLoginDto(dto)) EXCEPT
                            !.login = Some(dto), !.since = now]
            /\ dirBefore' = users
            /\ inFlight' = inFlight
       ELSE /\ reply' = NoReply
            /\ dirBefore' = {}
            /\ inFlight' = Accept([Suspended("login", "byUsername") EXCEPT
                                       !.login = Some(dto), !.t0 = now])
    /\ UNCHANGED <<clientVars, now, users, issued, loggedOut>>

\* LoginAsync with the account it read, up to await SaveChangesAsync: the
\* checks, then user.LastLoginAt = DateTime.UtcNow on the tracked entity
LoginChecked(r, user) ==
    IF LoginError(user, Head(r.login)) # ""
    THEN /\ reply' = [Failure("login", LoginError(user, Head(r.login))) EXCEPT
                         !.login = r.login, !.account = user, !.since = r.t0]
         /\ dirBefore' = users
         /\ inFlight' = inFlight \ {r}
    ELSE /\ reply' = NoReply
         /\ dirBefore' = {}
         /\ inFlight' = (inFlight \ {r}) \cup
               {[r EXCEPT !.pc = "save", !.user = user, !.t = now]}

\* LoginAsync resumes from await GetByUsernameAsync
LoginByUsername(r) ==
    /\ r.op = "login" /\ r.pc = "byUsername"
    /\ IF GetByUsername(users, Head(r.login).Username) = None
       THEN /\ reply' = NoReply
            /\ dirBefore' = {}
            /\ inFlight' = (inFlight \ {r}) \cup {[r EXCEPT !.pc = "byEmail"]}
       ELSE LoginChecked(r, GetByUsername(users, Head(r.login).Username))
    /\ UNCHANGED <<clientVars, now, users, issued, loggedOut>>

\* LoginAsync resumes from await GetByEmailAsync
LoginByEmail(r) ==
    /\ r.op = "login" /\ r.pc = "byEmail"
    /\ LoginChecked(r, GetByEmail(users, Head(r.login).Username))
    /\ UNCHANGED <<clientVars, now, users, issued, loggedOut>>

\* LoginAsync resumes from await SaveChangesAsync: MapToUserDto,
\* GenerateToken, expiresAt, return
LoginSave(r) ==
    /\ r.op = "login" /\ r.pc = "save"
    /\ LET v == SetLastLoginAt(Head(r.user), r.t)
           tok == GenerateToken(MapToUserDto(v), now)
       IN /\ users' = SaveLastLoginAt(users, v)
          /\ issued' = issued \cup {tok}
          /\ reply' = [NoReply EXCEPT !.op = "login", !.ok = TRUE, !.login = r.login,
                          !.token = Some(tok), !.user = Some(MapToUserDto(v)),
                          !.expiresAt = Some(now + TokenLifetime),
                          !.account = r.user, !.since = r.t0]
    /\ dirBefore' = users
    /\ inFlight' = inFlight \ {r}
    /\ UNCHANGED <<clientVars, now, loggedOut>>

\* AuthService.ValidateTokenAsync
ValidateTokenAsync(tok) ==
    /\ dirBefore' = users
    /\ reply' = IF ValidateTokenEscapes(tok, now)
                THEN [Failure("validate", TokenCheck(tok, now)) EXCEPT !.tokenArg = Some(tok)]
                ELSE [NoReply EXCEPT !.op = "validate", !.ok = TRUE, !.tokenArg = Some(tok),
                                     !.valid = ValidateToken(tok, now)]
    /\ UNCHANGED <<clientVars, inFlight, now, users, issued, loggedOut>>

\* GetUserFromTokenAsync up to await GetByIdAsync: the token handler's check;
\* its exception is caught and null returned
TokenAccepted(tok, t) == TokenCheck(tok, t) = "ok"

\* GetUserFromTokenAsync from await GetByIdAsync on: the profile of the
\* account read, or null
UserFromRead(dir, tok) ==
    LET user == GetById(dir, tok.payload.nameid)
    IN IF user # None THEN Some(MapToUserDto(Head(user))) ELSE None

\* AuthService.GetUserFromTokenAsync up to its await
GetUserFromTokenAsync(tok) ==
    /\ HasRoom
    /\ IF ~TokenAccepted(tok, now)
       THEN /\ reply' = [NoReply EXCEPT !.op = "getUser", !.ok = TRUE,
                            !.tokenArg = Some(tok)]
            /\ dirBefore' = users
            /\ inFlight' = inFlight
       ELSE /\ reply' = NoReply
            /\ dirBefore' = {}
            /\ inFlight' = Accept([Suspended("getUser", "byId") EXCEPT !.tok = Some(tok)])
    /\ UNCHANGED <<clientVars, now, users, issued, loggedOut>>

\* GetUserFromTokenAsync resumes from await GetByIdAsync
GetUserFromTokenResume(r) ==
    /\ r.op = "getUser" /\ r.pc = "byId"
    /\ reply' = [NoReply EXCEPT !.op = "getUser", !.ok = TRUE, !.tokenArg = r.tok,
                    !.user = UserFromRead(users, Head(r.tok))]
    /\ dirBefore' = users
    /\ inFlight' = inFlight \ {r}
    /\ UNCHANGED <<clientVars, now, users, issued, loggedOut>>

\* AuthService.RefreshTokenAsync up to the await inside GetUserFromTokenAsync
RefreshTokenAsync(tok) ==
    /\ HasRoom
    /\ IF ~TokenAccepted(tok, now)
       THEN /\ reply' = [Failure("refresh", "Invalid token") EXCEPT
                            !.tokenArg = Some(tok)]
            /\ dirBefore' = users
            /\ inFlight' = inFlight
       ELSE /\ reply' = NoReply
            /\ dirBefore' = {}
            /\ inFlight' = Accept([Suspended("refresh", "byId") EXCEPT !.tok = Some(tok)])
    /\ UNCHANGED <<clientVars, now, users, issued, loggedOut>>

\* RefreshTokenAsync resumes with the result of GetUserFromTokenAsync:
\* GenerateToken, expiresAt, return
RefreshTokenResume(r) ==
    /\ r.op = "refresh" /\ r.pc = "byId"
    /\ LET user == UserFromRead(users, Head(r.tok))
       IN IF user = None
          THEN /\ reply' = [Failure("refresh", "Invalid token") EXCEPT !.tokenArg = r.tok]
               /\ issued' = issued
          ELSE LET newToken == GenerateToken(Head(user), now)
               IN /\ issued' = issued \cup {newToken}
                  /\ reply' = [NoReply EXCEPT !.op = "refresh", !.ok = TRUE,
                                  !.tokenArg = r.tok, !.token = Some(newToken),
                                  !.user = user, !.expiresAt = Some(now + TokenLifetime)]
    /\ dirBefore' = users
    /\ inFlight' = inFlight \ {r}
    /\ UNCHANGED <<clientVars, now, users, loggedOut>>

\* AuthService.GenerateToken called through IAuthService with a UserDto
GenerateTokenCall(dto) ==
    /\ dirBefore' = users
    /\ issued' = issued \cup {GenerateToken(dto, now)}
    /\ reply' = [NoReply EXCEPT !.op = "issue", !.ok = TRUE, !.user = Some(dto),
                    !.token = Some(GenerateToken(dto, now))]
    /\ UNCHANGED <<clientVars, inFlight, now, users, loggedOut>>

\* AuthService.HashPassword called through IAuthService
HashPasswordCall(password, salt) ==
    /\ dirBefore' = users
    /\ reply' = [NoReply EXCEPT !.op = "hash", !.ok = TRUE, !.password = Some(password),
                    !.digest = Some(HashPassword(password, salt))]
    /\ UNCHANGED <<clientVars, inFlight, now, users, issued, loggedOut>>

\* AuthService.VerifyPassword called through IAuthService: the exception of
\* BCrypt.Verify leaves it, there is no catch
VerifyPasswordCall(password, hash) ==
    /\ dirBefore' = users
    /\ reply' = IF BCryptThrows(hash)
                THEN [Failure("verify", "SaltParseException") EXCEPT
                         !.password = Some(password), !.digest = Some(hash)]
                ELSE [NoReply EXCEPT !.op = "verify", !.ok = TRUE,
                         !.password = Some(password), !.digest = Some(hash),
                         !.valid = VerifyPassword(password, hash)]
    /\ UNCHANGED <<clientVars, inFlight, now, users, issued, loggedOut>>

\* AuthService.LogoutAsync: keeps no blacklist; loggedOut records the valid
\* tokens it was called with
LogoutAsync(tok) ==
    /\ dirBefore' = users
    /\ reply' = [NoReply EXCEPT !.op = "logout", !.ok = TRUE, !.tokenArg = Some(tok)]
    /\ loggedOut' = IF ValidateToken(tok, now) THEN loggedOut \cup {tok} ELSE loggedOut
    /\ UNCHANGED <<clientVars, inFlight, now, users, issued>>

\* the directory's owner activates or deactivates an account (User.IsActive)
SetUserActive(u, active) ==
    /\ u \in users
    /\ u.IsActive # active
    /\ users' = Save(users, u, [u EXCEPT !.IsActive = active])
    /\ dirBefore' = {}
    /\ reply' = NoReply
    /\ UNCHANGED <<clientVars, inFlight, now, issued, loggedOut>>

\* server time passes, up to the instant t
ServerTick(t) ==
    /\ t > now
    /\ now' = t
    /\ dirBefore' = {}
    /\ reply' = NoReply
    /\ UNCHANGED <<clientVars, inFlight, users, issued, loggedOut>>

ClientIdle ==
    /\ isAuthenticatedSubject = FALSE
    /\ currentUserSubject = None
    /\ localStorage = EmptyStorage
    /\ timers = <<>>
    /\ nav = IdleNav
    /\ guardSub = FALSE
    /\ location = RootUrl
    /\ lastOp = "init"
    /\ navbar = NavbarInit
    /\ observed = None
    /\ afterLogout = FALSE

\* the accounts of the directory the login and token scenarios start from:
\* what RegisterAsync stored for RegJohn and RegMallory at time 0
JohnAccount == NewUser(1, RegJohn, "salt1", 0)
MalloryAccount == NewUser(2, RegMallory, "salt2", 0)

InitServer ==
    /\ ClientIdle
    /\ now = 0
    /\ users = {}
    /\ issued = {}
    /\ loggedOut = {}
    /\ dirBefore = {}
    /\ reply = NoReply
    /\ inFlight = {}

\* the server with accounts registered
InitAccounts(dirs) ==
    /\ ClientIdle
    /\ now = 0
    /\ users \in dirs
    /\ issued = {}
    /\ loggedOut = {}
    /\ dirBefore = {}
    /\ reply = NoReply
    /\ inFlight = {}

\* Logins against the directory, served concurrently
NextLogin ==
    \/ \E dto \in LoginInputs : LoginAsync(dto)
    \/ \E r \in inFlight : LoginByUsername(r)
    \/ \E r \in inFlight : LoginByEmail(r)
    \/ \E r \in inFlight : LoginSave(r)
    \/ \E u \in users : \E b \in BOOLEAN : SetUserActive(u, b)
    \/ \E t \in LoginInstants : ServerTick(t)

SpecLogin == InitAccounts({{JohnAccount}, {JohnAccount, MalloryAccount}}) /\ [][NextLogin]_vars

\* The life of the tokens of one account around its logout
SessionLogins == {[Username |-> Johndoe, Password |-> Password1]}

NextSession ==
    \/ \E dto \in SessionLogins : Room(MaxInFlight) /\ LoginAsync(dto)
    \/ \E r \in inFlight : LoginByUsername(r)
    \/ \E r \in inFlight : LoginSave(r)
    \/ \E tok \in TokenInputs : ValidateTokenAsync(tok)
    \/ \E tok \in TokenInputs : Room(MaxInFlight) /\ GetUserFromTokenAsync(tok)
    \/ \E r \in inFlight : GetUserFromTokenResume(r)
    \/ \E tok \in TokenInputs : Room(MaxInFlight) /\ RefreshTokenAsync(tok)
    \/ \E r \in inFlight : RefreshTokenResume(r)
    \/ \E tok \in TokenInputs : LogoutAsync(tok)
    \/ \E t \in LoginInstants : ServerTick(t)

SpecSession == InitAccounts({{JohnAccount}}) /\ [][NextSession]_vars

\* the identities GenerateToken is called with: the accounts of the directory
\* and one that is not in it
IssueInputs == {MapToUserDto(u) : u \in users} \cup {Stranger}

\* Issuing, validating and refreshing tokens up to and past their expiry
NextToken ==
    \/ \E dto \in IssueInputs : GenerateTokenCall(dto)
    \/ \E tok \in TokenInputs : ValidateTokenAsync(tok)
    \/ \E tok \in TokenInputs : Room(MaxInFlight) /\ GetUserFromTokenAsync(tok)
    \/ \E r \in inFlight : GetUserFromTokenResume(r)
    \/ \E tok \in TokenInputs : Room(MaxInFlight) /\ RefreshTokenAsync(tok)
    \/ \E r \in inFlight : RefreshTokenResume(r)
    \/ \E u \in users : \E b \in BOOLEAN : SetUserActive(u, b)
    \/ \E t \in SessionInstants : ServerTick(t)

SpecToken == InitAccounts({{JohnAccount}}) /\ [][NextToken]_vars

\* What register, login, refresh and the token-to-user lookup return
NextReplies ==
    \/ \E dto \in RegisterInputs : Room(MaxInFlight) /\ RegisterAsync(dto)
    \/ \E r \in inFlight : \E salt \in Salts : RegisterCheckEmail(r, salt)
    \/ \E r \in inFlight : \E salt \in Salts : RegisterCheckUsername(r, salt)
    \/ \E r \in inFlight : RegisterAdd(r)
    \/ \E r \in inFlight : RegisterSave(r)
    \/ \E dto \in LoginInputs : Room(MaxInFlight) /\ LoginAsync(dto)
    \/ \E r \in inFlight : LoginByUsername(r)
    \/ \E r \in inFlight : LoginByEmail(r)
    \/ \E r \in inFlight : LoginSave(r)
    \/ \E tok \in TokenInputs : Room(MaxInFlight) /\ GetUserFromTokenAsync(tok)
    \/ \E r \in inFlight : GetUserFromTokenResume(r)
    \/ \E tok \in TokenInputs : Room(MaxInFlight) /\ RefreshTokenAsync(tok)
    \/ \E r \in inFlight : RefreshTokenResume(r)
    \/ \E t \in LoginInstants : ServerTick(t)

SpecReplies == InitAccounts({{JohnAccount}}) /\ [][NextReplies]_vars

\* Hashing and verifying passwords: the digests of the directory and strings
\* that are none
PasswordInputs == {Password1, WrongPass1, Secret9, Blank}
DigestInputs == {u.PasswordHash : u \in users} \cup MalformedDigests \cup {TruncatedDigest}

NextVerify ==
    \/ \E p \in PasswordInputs : \E salt \in Salts : HashPasswordCall(p, salt)
    \/ \E p \in PasswordInputs : \E h \in DigestInputs : VerifyPasswordCall(p, h)
    \/ \E u \in users : \E b \in BOOLEAN : SetUserActive(u, b)

SpecVerify == InitAccounts({{JohnAccount}, {JohnAccount, MalloryAccount}}) /\ [][NextVerify]_vars

\* Registration requests with every combination of valid and invalid fields
ValidationInputs ==
    [Email : {EmailT, EmailNewline, BadEmail, Blank}, Password : {Password1, Weak, Blank},
     FirstName : {John, Blank}, LastName : {Doe, Blank},
     Username : {Johndoe, Blank}]

NextRegister ==
    \/ \E dto \in ValidationInputs : Room(MaxInFlight) /\ RegisterAsync(dto)
    \/ \E r \in inFlight : RegisterCheckEmail(r, "salt1")
    \/ \E r \in inFlight : RegisterCheckUsername(r, "salt1")
    \/ \E r \in inFlight : RegisterAdd(r)
    \/ \E r \in inFlight : RegisterSave(r)

SpecRegister == InitServer /\ [][NextRegister]_vars

\* Registration requests that pass validation, served concurrently while the
\* clock advances
ConcurrentInputs ==
    [Email : {EmailT, EmailM}, Password : {Password1}, FirstName : {John},
     LastName : {Doe}, Username : {Johndoe}]

NextConcurrent ==
    \/ \E dto \in ConcurrentInputs : RegisterAsync(dto)
    \/ \E r \in inFlight : RegisterCheckEmail(r, "salt1")
    \/ \E r \in inFlight : RegisterCheckUsername(r, "salt1")
    \/ \E r \in inFlight : RegisterAdd(r)
    \/ \E r \in inFlight : RegisterSave(r)
    \/ \E t \in LoginInstants : ServerTick(t)

SpecConcurrent == InitServer /\ [][NextConcurrent]_vars

(***************************************************************************)
(* Claims about the client                                                 *)
(***************************************************************************)
SessionStored ==
    /\ localStorage.auth_token # None
    /\ localStorage.auth_expires_at # None

SessionLive == SessionStored /\ Head(localStorage.auth_expires_at) > now

\* C1: isAuthenticated() is true if and only if a session is stored and its
\* expiresAt is strictly later than the current time.
C1_AuthenticatedIffLiveSession == IsAuthenticated <=> SessionLive

\* C3: after logout() isAuthenticated() is false and none of auth_token,
\* auth_user, auth_expires_at is present in storage.
C3_LogoutClearsEverything ==
    lastOp = "logout" => (~IsAuthenticated /\ localStorage = EmptyStorage)

ReturnUrlPrefix == LoginPath \o <<"?">> \o ReturnUrlKey \o <<"=">>

HasPrefix(s, p) == Len(s) >= Len(p) /\ SubSeq(s, 1, Len(p)) = p

ReturnUrlValue(r) == SubSeq(r, Len(ReturnUrlPrefix) + 1, Len(r))

UrlDelimiters == {"/", "?", "=", "&", "#", " "}

ExampleRedirect ==
    <<"/", "l", "o", "g", "i", "n", "?", "r", "e", "t", "u", "r", "n", "U", "r", "l",
      "=", "%", "2", "F", "i", "n", "v", "e", "n", "t", "o", "r", "y", "%", "3", "F",
      "c", "a", "t", "e", "g", "o", "r", "y", "%", "3", "D", "e", "l", "e", "c", "t",
      "r", "o", "n", "i", "c", "s", "%", "2", "6", "s", "o", "r", "t", "%", "3", "D",
      "n", "a", "m", "e">>

FragmentRedirect ==
    <<"/", "l", "o", "g", "i", "n", "?", "r", "e", "t", "u", "r", "n", "U", "r", "l",
      "=", "%", "2", "F", "p", "r", "o", "t", "e", "c", "t", "e", "d", "%", "2", "3",
      "s", "e", "c", "t", "i", "o", "n", "1">>

GuardChecked == nav.seen # <<>>

\* C7: a navigation attempt checked while unauthenticated is denied and
\* redirected to /login?returnUrl=<v>, where v is the percent-encoded original
\* destination with its query string and fragment: v holds no raw URL
\* delimiter and decodes to the destination; the finished navigation shows
\* that URL.
C7_DenyRedirectsWithReturnUrl ==
    (GuardChecked /\ ~Head(nav.seen)) =>
        /\ ~nav.result
        /\ nav.pc \in {"denied", "done"}
        /\ nav.redirects # <<>>
        /\ LET r == Head(nav.redirects)
           IN /\ HasPrefix(r, ReturnUrlPrefix)
              /\ \A i \in 1..Len(ReturnUrlValue(r)) : ReturnUrlValue(r)[i] \notin UrlDelimiters
              /\ DecodeURIComponent(ReturnUrlValue(r)) = nav.target
              /\ (nav.target = ExampleUrl => r = ExampleRedirect)
              /\ (nav.target = FragmentUrl => r = FragmentRedirect)
              /\ (nav.pc = "done" => location = r)

C7_Witness ==
    /\ GuardChecked /\ ~Head(nav.seen)
    /\ nav.target = ExampleUrl
    /\ nav.pc = "done"
    /\ location = ExampleRedirect

\* C8: a navigation attempt checked while authenticated is allowed, issues no
\* redirect and ends at the requested destination unchanged.
C8_AuthenticatedAllowed ==
    (GuardChecked /\ Head(nav.seen)) =>
        /\ nav.pc \in {"allowed", "done"}
        /\ Head(nav.redirects \o <<nav.target>>) = nav.target
        /\ (nav.pc = "done" => location = nav.target)

C8_Witness ==
    /\ GuardChecked /\ Head(nav.seen)
    /\ nav.target = ExampleUrl
    /\ nav.pc = "done"
    /\ location = ExampleUrl

\* C9: a guard check reads the authentication state exactly once; decision
\* and redirect are those of that one snapshot, whatever is emitted later.
C9_SingleSnapshot ==
    /\ Len(nav.seen) <= 1
    /\ ~guardSub
    /\ (nav.guarded /\ nav.pc \in {"allowed", "denied", "done"}) =>
          /\ Len(nav.seen) = 1
          /\ nav.result = Head(nav.seen)
          /\ Len(nav.redirects) = (IF Head(nav.seen) THEN 0 ELSE 1)

\* the state changed after the snapshot, while the navigation was in progress
C9_Witness ==
    /\ nav.pc = "allowed"
    /\ nav.seen = <<TRUE>>
    /\ ~isAuthenticatedSubject
    /\ lastOp = "logout"

\* the stored expiresAt has passed
SessionExpired == SessionStored /\ Head(localStorage.auth_expires_at) <= now

SessionCleared == localStorage = EmptyStorage /\ ~IsAuthenticated

\* C27: once the stored expiresAt has passed, the stored session is
\* eventually cleared and the state is unauthenticated, with no user
\* interaction.
C27_ExpiryEventuallyClears == [](SessionExpired => <>SessionCleared)

\* C28: when an outbound call has received a 401 or 403 response, the session
\* is cleared and isAuthenticated() is false.
C28_RejectionClearsSession == lastOp = "rejected" => SessionCleared

\* C29: of several navigation attempts in flight each is decided by its own
\* guard check only, the displayed location is the outcome of the attempt that
\* completed last, and it is the login page when that attempt was checked
\* unauthenticated.
C29_LastAttemptDecidesLocation ==
    /\ (nav.guarded /\ nav.pc \in {"allowed", "denied", "done"}) =>
          /\ nav.seen \in {<<TRUE>>, <<FALSE>>}
          /\ nav.result = Head(nav.seen)
          /\ nav.redirects = IF Head(nav.seen) THEN <<>> ELSE <<LoginRedirectUrl(nav.target)>>
    /\ (~nav.guarded /\ nav.pc = "done") => location = nav.target
    /\ (nav.guarded /\ nav.pc = "done") =>
          /\ location = IF Head(nav.seen) THEN nav.target ELSE LoginRedirectUrl(nav.target)
          /\ ~Head(nav.seen) => HasPrefix(location, LoginPath)

\* an attempt that started while another, already denied, was in flight
C29_Witness ==
    /\ nav.superseded
    /\ nav.pc = "done"
    /\ nav.seen = <<FALSE>>
    /\ nav.target = ProfileUrl
    /\ location = LoginRedirectUrl(ProfileUrl)

\* C30: subscribers hold the state every transition led to: authenticated
\* after a login, unauthenticated after a logout, after an authorization
\* rejection and once the stored expiresAt has passed.
C30_EveryTransitionNotified ==
    /\ navbar.isAuthenticated = IsAuthenticated
    /\ lastOp = "loginDone" => navbar.isAuthenticated
    /\ lastOp = "logout" => ~navbar.isAuthenticated
    /\ lastOp = "rejected" => ~navbar.isAuthenticated
    /\ SessionExpired => ~navbar.isAuthenticated

\* C33: a service constructed over corrupted persisted data (profile that is
\* no JSON, expiry that is no date) starts without failing and as having no
\* session: isAuthenticated() is false and there is no current user.
C33_CorruptedStorageIsNoSession ==
    lastOp = "init" => (~IsAuthenticated /\ GetCurrentUser = None /\ ~navbar.isAuthenticated)

\* the service constructed again, later, over the corrupted profile
C33_Witness ==
    /\ lastOp = "init"
    /\ localStorage.auth_token = Some("valid-token")
    /\ localStorage.auth_user = Some("invalid-json")
    /\ now >= LoginDelay

\* C34: a reload after a successful login finds the session the login
\* stored, and the new service is authenticated, with the same profile, if
\* and only if the persisted expiresAt is still in the future.
C34_SessionSurvivesReload ==
    [][(IsAuthenticated /\ lastOp = "loginDone" /\ lastOp' = "init") =>
          /\ SessionStored'
          /\ IsAuthenticated' <=> SessionLive'
          /\ IsAuthenticated' => GetCurrentUser' = GetCurrentUser]_vars

\* C35: from a logout() until a login completes, a navigation started to a
\* guarded route of the application (inventory, locations, categories,
\* reports, profile, settings) is redirected to the login page.
C35_GuardedRoutesClosedAfterLogout ==
    [][(afterLogout /\ lastOp' = "navigate" /\ nav'.target \in GuardedRoutes) =>
          /\ nav'.pc # "failed"
          /\ nav'.redirects # <<>>
          /\ HasPrefix(Last(nav'.redirects), LoginPath)]_vars

\* C37: a login that was pending when logout() was called does not
\* re-authenticate the service when it completes: isAuthenticated() stays
\* false until a login started after the logout succeeds.
C37_PendingLoginStaysLoggedOut ==
    [][(lastOp = "logout" /\ lastOp' = "loginDone") => ~IsAuthenticated']_vars

\* C38: whenever a subscriber of the authentication streams is called, the
\* flag it sees is true exactly when the current user it sees is non-null.
C38_FlagMatchesUser ==
    /\ navbar.isAuthenticated <=> navbar.currentUser # None
    /\ IsAuthenticated <=> GetCurrentUser # None
    /\ observed # None =>
          (Head(observed).isAuthenticated <=> Head(observed).currentUser # None)

\* C40: what the service holds after a login completes comes from that
\* login alone, also when another login completed or is pending beside it:
\* the profile is the one of the login that completed last, the subscribers
\* hold the same one, and no session key is written apart from the others.
C40_LastLoginWins ==
    [][(timers # <<>> /\ timers' = Tail(timers) /\ lastOp' = "loginDone") =>
          /\ IsAuthenticated'
          /\ GetCurrentUser' # None
          /\ Head(GetCurrentUser').email = Head(timers).email
          /\ navbar'.currentUser = GetCurrentUser'
          /\ localStorage' = localStorage]_vars

\* two logins with different e-mail addresses have both completed within
\* less than two login delays, so the second was started before the first
\* completed
C40_Witness ==
    /\ lastOp = "loginDone"
    /\ now < 2 * LoginDelay
    /\ timers = <<>>
    /\ observed # None
    /\ Head(observed).currentUser = Some(MockUser("test@example.com"))
    /\ GetCurrentUser = Some(MockUser("user2@example.com"))

(***************************************************************************)
(* Claims about the server                                                 *)
(***************************************************************************)
InvalidCredentials == "Invalid username or password"
InactiveAccount == "Account is inactive"

\* u is the account the identifier id stands for: the one with that
\* username, otherwise the one with that e-mail address
Resolves(dir, id, u) ==
    /\ u \in dir
    /\ \/ u.Username = id
       \/ u.Email = id /\ \A w \in dir : w.Username # id

LoginServed == reply.op = "login"
LoginId == Head(reply.login).Username
LoginPassword == Head(reply.login).Password
LoginFilled == ~IsNullOrWhiteSpace(LoginId) /\ ~IsNullOrWhiteSpace(LoginPassword)

\* C2: once LogoutAsync has returned for a valid token, validate reports
\* failure for it and refresh and the token-to-user lookup fail on it, also
\* before its expiration instant.
C2_LoggedOutTokenRejected ==
    (reply.tokenArg # None /\ Head(reply.tokenArg) \in loggedOut) =>
        /\ reply.op = "validate" => ~reply.valid
        /\ reply.op = "getUser" => reply.user = None
        /\ reply.op = "refresh" => ~reply.ok

\* C4: a login whose identifier matches no account and a login whose
\* identifier matches an account, in whatever state, with a password that does
\* not verify fail with the same error.
C4_WrongPasswordLooksLikeNoAccount ==
    (LoginServed /\ LoginFilled) =>
        /\ (\A u \in dirBefore : ~Resolves(dirBefore, LoginId, u)) =>
               (~reply.ok /\ reply.error = InvalidCredentials)
        /\ (\E u \in dirBefore : /\ Resolves(dirBefore, LoginId, u)
                                 /\ ~VerifyPassword(LoginPassword, u.PasswordHash)) =>
               (~reply.ok /\ reply.error = InvalidCredentials)

\* C5: login fails with the inactive-account reason only when the supplied
\* password is the correct password of the matched account.
C5_InactiveOnlyAfterVerify ==
    (LoginServed /\ reply.error = InactiveAccount) =>
        \E u \in dirBefore : /\ Resolves(dirBefore, LoginId, u)
                             /\ VerifyPassword(LoginPassword, u.PasswordHash)

\* the account a served login read from the directory, as it read it
LoginAccount == Head(reply.account)

\* C6: a login with the correct password of the account it matched fails with
\* the inactive-account reason and returns no token when the active flag of
\* that account is false.
C6_InactiveAccountReason ==
    (/\ LoginServed /\ LoginFilled /\ reply.account # None
     /\ ~LoginAccount.IsActive
     /\ VerifyPassword(LoginPassword, LoginAccount.PasswordHash)) =>
        /\ ~reply.ok
        /\ reply.error = InactiveAccount
        /\ reply.token = None

\* a login by e-mail address with the password of an inactive account
C6_Witness ==
    /\ LoginServed
    /\ reply.error = InactiveAccount
    /\ reply.account # None
    /\ ~LoginAccount.IsActive
    /\ LoginAccount.Email = LoginId
    /\ VerifyPassword(LoginPassword, LoginAccount.PasswordHash)

(***************************************************************************)
(* Claims about registration and login replies                             *)
(***************************************************************************)
UniqueAccounts(dir) ==
    \A u \in dir : \A v \in dir :
        u # v => (u.Username # v.Username /\ u.Email # v.Email)

\* C21: no two accounts of the directory share a username and no two share
\* an e-mail address, also when register requests are served concurrently.
C21_UniqueUsernameAndEmail == UniqueAccounts(users)

RegisterServed == reply.op = "register" /\ reply.dto # None
RegisterDto == Head(reply.dto)

EmailTaken == \E u \in dirBefore : u.Email = RegisterDto.Email
UsernameTaken == \E u \in dirBefore : u.Username = RegisterDto.Username

EmailConflict == "Email already exists"
UsernameConflict == "Username already exists"

\* C22: a register whose input is valid fails with a conflict error when the
\* e-mail address or the username is held by an account when the request
\* first reads the directory; the e-mail address is checked first, so with
\* both taken the error is the e-mail conflict.
C22_ConflictEmailFirst ==
    (RegisterServed /\ ValidateCreateUserDto(RegisterDto) = "") =>
        /\ EmailTaken => (~reply.ok /\ reply.error = EmailConflict)
        /\ (~EmailTaken /\ UsernameTaken) =>
               (~reply.ok /\ reply.error = UsernameConflict)

C22_Witness ==
    /\ RegisterServed
    /\ EmailTaken /\ UsernameTaken
    /\ reply.error = EmailConflict

\* the validation rules of register as the specification lists them
Violates(dto, rule) ==
    CASE rule = "firstName" -> IsNullOrWhiteSpace(dto.FirstName)
      [] rule = "lastName" -> IsNullOrWhiteSpace(dto.LastName)
      [] rule = "username" -> IsNullOrWhiteSpace(dto.Username)
      [] rule = "email" -> ~IsValidEmail(dto.Email)
      [] rule = "password" -> ~IsValidPassword(dto.Password)

\* the rule a validation message names, as the tests of RegisterAsync expect
\* the messages: an empty e-mail address is named by "Invalid email format",
\* an empty password by "Password does not meet security requirements";
\* "Email is required" and "Password is required" name none of the listed
\* rules
RuleNamed(error) ==
    CASE error = "First name is required" -> "firstName"
      [] error = "Last name is required" -> "lastName"
      [] error = "Username is required" -> "username"
      [] error = "Invalid email format" -> "email"
      [] error = "Password does not meet security requirements" -> "password"
      [] error = "Email is required" -> "emailRequired"
      [] error = "Password is required" -> "passwordRequired"
      [] OTHER -> "none"

FirstViolated(dto, order) ==
    order[CHOOSE i \in 1..Len(order) :
              /\ Violates(dto, order[i])
              /\ \A j \in 1..(i - 1) : ~Violates(dto, order[j])]

ListedOrder == <<"firstName", "lastName", "username", "email", "password">>

Invalid(dto) == \E i \in 1..Len(ListedOrder) : Violates(dto, ListedOrder[i])

\* C23: a register whose input violates one or more validation rules fails
\* with the validation error that names the first violated rule in the order
\* first name, last name, username, e-mail syntax, password complexity.
C23_FirstRuleInListedOrder ==
    (RegisterServed /\ Invalid(RegisterDto)) =>
        (~reply.ok /\ RuleNamed(reply.error) = FirstViolated(RegisterDto, ListedOrder))

SafeProfileFields == {"Id", "Username", "Email", "FirstName", "LastName", "FullName",
                      "IsActive", "LastLoginAt", "CreatedAt"}
TextFields == {"Username", "Email", "FirstName", "LastName", "FullName"}
ClaimFields == {"unique_name", "email", "given_name", "family_name"}

\* the plaintext passwords of the accounts and of the request served
Plaintexts ==
    {u.PasswordHash.key[2] : u \in users}
        \cup (IF reply.login # None THEN {Head(reply.login).Password} ELSE {})
        \cup (IF reply.dto # None THEN {Head(reply.dto).Password} ELSE {})

\* C24: what register, login, refresh and the token-to-user lookup return
\* holds neither a password hash nor a plaintext password: the profile has
\* only the safe fields, and no text of the profile or of the token's claims
\* is a password.
C24_NoPasswordInReplies ==
    (reply.op \in {"register", "login", "refresh", "getUser"}) =>
        /\ reply.user # None =>
              /\ DOMAIN Head(reply.user) = SafeProfileFields
              /\ \A f \in TextFields : Head(reply.user)[f] \notin Plaintexts
        /\ reply.token # None =>
              \A f \in ClaimFields : Head(reply.token).payload[f] \notin Plaintexts

C24_Witness ==
    /\ reply.op = "login" /\ reply.ok
    /\ reply.user # None /\ reply.token # None
    /\ \E u \in users : u.Id = Head(reply.user).Id /\ u.PasswordHash.key[2] \in Plaintexts

\* C25: when a successful login returns, the last-login timestamp of the
\* account it matched is an instant of that login, in the directory and in the
\* profile returned with the token and expiresAt.
C25_LoginPersistsLastLogin ==
    (LoginServed /\ reply.ok) =>
        /\ reply.token # None /\ reply.user # None /\ reply.expiresAt # None
        /\ reply.account # None
        /\ Head(reply.user).Id = LoginAccount.Id
        /\ Head(reply.user).LastLoginAt # None
        /\ reply.since <= Head(Head(reply.user).LastLoginAt)
        /\ Head(Head(reply.user).LastLoginAt) <= now
        /\ \E u \in users : /\ u.Id = LoginAccount.Id
                             /\ u.LastLoginAt = Head(reply.user).LastLoginAt

\* a login later than the previous one
C25_Witness ==
    /\ LoginServed /\ reply.ok
    /\ reply.since > 0
    /\ LoginAccount.LastLoginAt = Some(0)
    /\ Head(reply.user).LastLoginAt = Some(reply.since)

\* C36: a login with the e-mail address of an active account and that
\* account's password succeeds and returns that account's profile, whatever
\* usernames the other accounts have.
C36_LoginByOwnEmail ==
    (LoginServed /\ LoginFilled) =>
        \A a \in dirBefore :
            (a.IsActive /\ a.Email = LoginId /\ VerifyPassword(LoginPassword, a.PasswordHash))
                => (reply.ok /\ reply.user # None /\ Head(reply.user).Id = a.Id)

(***************************************************************************)
(* Claims about tokens                                                     *)
(***************************************************************************)
TokenExpired == "Token expired"
InvalidToken == "Invalid token"
UserNotFound == "User not found"
UserInactive == "User account is inactive"

\* the token the served request was called with
Presented == Head(reply.tokenArg)

WellSigned(tok) == tok.wellFormed /\ tok.sig = Sign(tok.payload, JwtSecret)

\* the expiration instant of a token, in ms
ExpiresAt(tok) == tok.payload.exp * 1000

RefreshServed == reply.op = "refresh"

\* C13: refresh fails with an 'expired' reason for a well-formed, correctly
\* signed token past its expiration instant, and with a different, 'invalid'
\* reason for a malformed or wrongly signed token.
C13_RefreshExpiredVsInvalid ==
    RefreshServed =>
        /\ (WellSigned(Presented) /\ ExpiresAt(Presented) < now) =>
               (~reply.ok /\ reply.error = TokenExpired)
        /\ ~WellSigned(Presented) =>
               (~reply.ok /\ reply.error = InvalidToken)

\* C14: refresh of a correctly signed, unexpired token returns no new token
\* when the account its claims name does not exist or is inactive; it fails
\* with the account-not-found, respectively the account-inactive, reason.
C14_RefreshNeedsActiveAccount ==
    (RefreshServed /\ TokenCheck(Presented, now) = "ok") =>
        /\ GetById(dirBefore, Presented.payload.nameid) = None =>
               (~reply.ok /\ reply.token = None /\ reply.error = UserNotFound)
        /\ (\E u \in dirBefore : u.Id = Presented.payload.nameid /\ ~u.IsActive) =>
               (~reply.ok /\ reply.token = None /\ reply.error = UserInactive)

\* C15: the token a successful refresh returns differs from the token it was
\* called with, also within the clock second in which that one was issued.
C15_RefreshReturnsDifferentToken ==
    (RefreshServed /\ reply.ok) => Head(reply.token) # Presented

\* C16: a successful refresh has set the last-login timestamp of the account
\* the token names to the time of the refresh, in the directory and in the
\* profile it returns.
C16_RefreshUpdatesLastLogin ==
    (RefreshServed /\ reply.ok) =>
        /\ \E u \in users : u.Id = Presented.payload.nameid /\ u.LastLoginAt = Some(now)
        /\ Head(reply.user).LastLoginAt = Some(now)

\* C17: a call of GenerateToken never returns a token string that an earlier
\* issuance returned, also within the same clock second.
C17_IssueNeverRepeats ==
    [][(reply'.op = "issue" /\ reply' # reply) => Head(reply'.token) \notin issued]_vars

\* a token presented in the clock second in which it was issued
Fresh(tok) == tok \in issued /\ tok.payload.iat = EpochSeconds(now)

\* C18: a freshly issued token validates, and the lookup by it yields the
\* subject id, username and e-mail that were given to GenerateToken.
C18_ValidateIssueRoundTrip ==
    (reply.tokenArg # None /\ Fresh(Presented)) =>
        /\ reply.op = "validate" => (reply.ok /\ reply.valid)
        /\ reply.op = "getUser" =>
              /\ reply.user # None
              /\ Head(reply.user).Id = Presented.payload.nameid
              /\ Head(reply.user).Username = Presented.payload.unique_name
              /\ Head(reply.user).Email = Presented.payload.email

\* C19: ValidateTokenAsync raises no exception, and answers false for a null,
\* empty or malformed string, for a wrongly signed token and for an expired one.
C19_ValidateNeverThrows ==
    reply.op = "validate" =>
        /\ reply.ok
        /\ (~WellSigned(Presented) \/ ExpiresAt(Presented) < now) => ~reply.valid

C19_Witness ==
    /\ reply.op = "validate" /\ reply.ok /\ ~reply.valid
    /\ WellSigned(Presented)
    /\ ExpiresAt(Presented) < now

\* C20: no token is accepted by validate at or after its expiration instant.
C20_NoAcceptanceAtOrAfterExpiry ==
    (reply.op = "validate" /\ reply.valid) => now < ExpiresAt(Presented)


\* C31: GetUserFromTokenAsync returns no profile for a token whose account
\* is inactive when the lookup is made, however well signed and unexpired
\* the token is.
C31_NoProfileForInactiveAccount ==
    (reply.op = "getUser" /\ reply.user # None) =>
        \A u \in dirBefore : u.Id = Head(reply.tokenArg).payload.nameid => u.IsActive
\* C39: the expiresAt returned by login and by refresh is never later than
\* the expiration instant embedded in the token returned with it.
C39_ExpiresAtWithinToken ==
    (reply.op \in {"login", "refresh"} /\ reply.ok) =>
        Head(reply.expiresAt) <= ExpiresAt(Head(reply.token))

(***************************************************************************)
(* Claims about passwords                                                  *)
(***************************************************************************)
\* the digests HashPassword produces
HashOutputs == {HashPassword(p, salt) : p \in PasswordInputs, salt \in Salts}

\* C32: VerifyPassword answers false, and raises no exception, for every
\* digest that is not a well-formed output of HashPassword.
C32_VerifyFalseOnMalformedDigest ==
    (reply.op = "verify" /\ Head(reply.digest) \notin HashOutputs) =>
        (reply.ok /\ ~reply.valid)

====
